---------------------------- MODULE Spec2Model ----------------------------
(***************************************************************************)
(* A model of the algorithmic core of m6plot.py (pyGVtools): the colour    *)
(* map and colour level selection, the centre-to-corner coordinate         *)
(* expansion, the corner coordinates, the boundary statistics, the area    *)
(* weighted statistics and correlation, the colour levels and statistics   *)
(* of the plot functions, and the zoom of the interactive figure.          *)
(*                                                                         *)
(* The functions of m6plot.py are pure: each is an operator here, and the  *)
(* state machine records one call, (op, args, result): from the initial    *)
(* state an action picks the arguments of a call from bounded sets and     *)
(* stores what the function returns, or the exception it raises, and in    *)
(* heap the arrays of the caller as the call left them.  Two parts run     *)
(* over several steps: the compare functions assign extend and nBins for   *)
(* the field panels and read them for the difference panel, and the zoom   *)
(* handler reads the limits that the events before have set.               *)
(*                                                                         *)
(* Numbers.  Colour levels, data extremes and field values are integers.   *)
(* Coordinates are held in eighths (the integer 8 stands for 1.0), so the  *)
(* products 0.5*x of expand, expandI and expandJ are exact integer         *)
(* halvings; IEEE doubles compute the same values exactly for the small    *)
(* dyadic numbers used.  A quotient p/q of myStats is held as the pair     *)
(* (num, den), and a square root by its radicand.                          *)
(***************************************************************************)
EXTENDS Integers, Sequences, FiniteSets, TLC

\* heap holds the arrays the caller handed in, as they are after the call
VARIABLES op, args, result, heap

vars == <<op, args, result, heap>>

(***************************************************************************)
(* Bounds of the model.                                                    *)
(***************************************************************************)
\* chooseColorMap: sMin and sMax range over -MaxMap..MaxMap
MaxMap == 11
\* chooseColorLevels: sMin and sMax range over 0..MaxVal
MaxVal == 3
\* chooseColorLevels: the values of cLim range over 1..MaxLimVal
MaxLimVal == 2
\* chooseColorLevels: cLim holds at most MaxLim values
MaxLim == 3
\* chooseColorLevels: nBins ranges over 1..MaxBins
MaxBins == 2
\* expand: the vector holds at most MaxLen values
MaxLen == 4
\* expand: the values of the vector range over 0..MaxCoord (0.0 .. MaxCoord.0)
MaxCoord == 4
\* expandI, expandJ: the array holds at most MaxCells values
MaxCells == 6
\* expandI, expandJ: the values of the array range over 0..MaxCoord2
MaxCoord2 == 1
\* boundaryStats: the array holds at most MaxCorners values
MaxCorners == 9
\* boundaryStats: the values of the array range over 0..MaxEdge
MaxEdge == 1
\* myStats: the field holds at most MaxField cells
MaxField == 2
\* myStats: the values of the field range over -1..MaxFieldVal
MaxFieldVal == 1
\* myStats: the areas of the cells range over 0..MaxArea
MaxArea == 2

\* The cells of the two fields of a correlation
MaxPair == 2

\* createXYcoords: the field has 1..MaxXY rows and 1..MaxXY columns
MaxXY == 2

\* The nBins that the plot functions use when the caller gives none
DefaultBins == 35

\* The scroll-ups, counted from the saved extent, that the zoom model takes
MaxZoomIn == 2

(***************************************************************************)
(* Python values.  None is an option record, so that a value and its       *)
(* absence compare without a type clash.                                   *)
(***************************************************************************)
NoneInt == [some |-> FALSE, val |-> 0]

NoneSeq == [some |-> FALSE, val |-> <<>>]

Some(v) == [some |-> TRUE, val |-> v]

\* All sequences over S of length lo..hi
SeqsOf(S, lo, hi) == UNION {[1..n -> S] : n \in lo..hi}

Min2(a, b) == IF a < b THEN a ELSE b

Max2(a, b) == IF a > b THEN a ELSE b

\* Python's range(a, b) as a sequence
Range(a, b) == [k \in 1..Max2(b - a, 0) |-> a + k - 1]

(***************************************************************************)
(* chooseColorMap (m6plot.py 305-312).  The comparison sMin < 0.1*sMax is  *)
(* 10*sMin < sMax; within the bounds the double 0.1*sMax lies on the same  *)
(* side of every integer sMin as the exact product.                        *)
(***************************************************************************)
\* Mutant: the second branch tried before the first
chooseColorMap_hotFirst(sMin, sMax) ==
  IF sMax > 0 /\ 10 * sMin < sMax THEN "hot"
  ELSE IF sMin < 0 /\ sMax > 0 THEN "seismic"
  ELSE IF sMin < 0 /\ 10 * sMax > sMin THEN "hot_r"
  ELSE "spectral"

chooseColorMap(sMin, sMax) ==
  IF sMin < 0 /\ sMax > 0 THEN "seismic"
  ELSE IF sMax > 0 /\ 10 * sMin < sMax THEN "hot"
  ELSE IF sMin < 0 /\ 10 * sMax > sMin THEN "hot_r"
  ELSE "spectral"

MapVals == (0 - MaxMap)..MaxMap

ChooseColorMapCall ==
  /\ op = "init"
  /\ \E sMin \in MapVals, sMax \in MapVals :
       /\ op' = "chooseColorMap"
       /\ args' = [sMin |-> sMin, sMax |-> sMax]
       /\ result' = [name |-> chooseColorMap(sMin, sMax)]
       /\ UNCHANGED heap

(***************************************************************************)
(* chooseColorLevels (m6plot.py 315-351).                                  *)
(***************************************************************************)
DataVals == 0..MaxVal

LimVals == 1..MaxLimVal

\* cLim: None, or a list of 0..MaxLim values
OptLims == {NoneSeq} \cup {Some(s) : s \in SeqsOf(LimVals, 0, MaxLim)}

\* nBins: None, or a positive integer
OptBins == {NoneInt} \cup {Some(n) : n \in 1..MaxBins}

\* extend: None, or one of the four names
ExtendArgs == {"None", "both", "min", "max", "neither"}

\* Mutant: the check that nBins is absent beside explicit levels is missing
levelSpecError_noAmbiguityCheck(cLim, nBins) ==
  IF ~nBins.some /\ ~cLim.some
    THEN "At least one of cLim or nBins is required."
  ELSE IF cLim.some /\ Len(cLim.val) < 2
    THEN "cLim must be at least 2 values long."
  ELSE IF cLim.some /\ ~nBins.some /\ Len(cLim.val) = 2
    THEN "nBins must be provided when cLims specifies a color range."
  ELSE "none"

\* The checks of the arguments, in the order of the code: the message of the
\* exception raised, or "none"
levelSpecError(cLim, nBins) ==
  IF ~nBins.some /\ ~cLim.some
    THEN "At least one of cLim or nBins is required."
  ELSE IF cLim.some /\ Len(cLim.val) < 2
    THEN "cLim must be at least 2 values long."
  ELSE IF cLim.some /\ ~nBins.some /\ Len(cLim.val) = 2
    THEN "nBins must be provided when cLims specifies a color range."
  ELSE IF cLim.some /\ nBins.some /\ Len(cLim.val) > 2
    THEN "nBins cannot be provided when cLims specifies color levels."
  ELSE "none"

\* The values a tick of the locator may take
TickVals == (0 - 1)..(MaxVal + 1)

StrictlyIncreasing(s) == \A i \in 1..(Len(s) - 1) : s[i] < s[i + 1]

\* The values of the set S in increasing order
RECURSIVE SortedSeq(_)
SortedSeq(S) ==
  IF S = {} THEN <<>>
  ELSE LET m == CHOOSE v \in S : \A w \in S : v <= w
       IN  <<m>> \o SortedSeq(S \ {m})

EvenlySpaced(t) ==
  \A i \in 1..(Len(t) - 2) : t[i + 1] - t[i] = t[i + 2] - t[i + 1]

\* The tick sequences of the locator: two values at least, multiples of one
\* step apart, in increasing order
NiceTicks ==
  {t \in {SortedSeq(S) : S \in SUBSET TickVals} :
     Len(t) >= 2 /\ EvenlySpaced(t)}

\* MaxNLocator(nbins, steps).tick_values(vmin, vmax) is matplotlib's: what
\* the code relies on is its contract, at most nbins intervals of nice,
\* strictly increasing, evenly spaced ticks that cover the range.  Any such
\* sequence may come back.
MaxNLocatorTicks(nbins, vmin, vmax) ==
  {t \in NiceTicks :
     /\ Len(t) <= nbins + 1
     /\ StrictlyIncreasing(t)
     /\ t[1] <= Min2(vmin, vmax)
     /\ t[Len(t)] >= Max2(vmin, vmax)}

\* The levels: the locator's over (sMin, sMax) or over the range cLim,
\* or cLim itself
chooseLevels(sMin, sMax, cLim, nBins) ==
  IF ~cLim.some THEN MaxNLocatorTicks(nBins.val, sMin, sMax)
  ELSE IF Len(cLim.val) = 2
    THEN MaxNLocatorTicks(nBins.val, cLim.val[1], cLim.val[2])
  ELSE {cLim.val}

\* Mutant: 'min' asks for sMax strictly below the last level
chooseExtend_strictMax(sMin, sMax, levels, extend) ==
  IF extend = "None"
    THEN IF sMin < levels[1] /\ sMax > levels[Len(levels)] THEN "both"
         ELSE IF sMin < levels[1] /\ sMax < levels[Len(levels)] THEN "min"
         ELSE IF sMin >= levels[1] /\ sMax > levels[Len(levels)] THEN "max"
         ELSE "neither"
  ELSE extend

\* extend, when the caller gave none
chooseExtend(sMin, sMax, levels, extend) ==
  IF extend = "None"
    THEN IF sMin < levels[1] /\ sMax > levels[Len(levels)] THEN "both"
         ELSE IF sMin < levels[1] /\ sMax <= levels[Len(levels)] THEN "min"
         ELSE IF sMin >= levels[1] /\ sMax > levels[Len(levels)] THEN "max"
         ELSE "neither"
  ELSE extend

eColors(extend) ==
  << IF extend \in {"both", "min"} THEN 1 ELSE 0,
     IF extend \in {"both", "max"} THEN 1 ELSE 0 >>

\* The number of colours sampled from the named colour map (lut)
lutSize(nColors, e) == nColors + e[1] + e[2]

\* The indices handed to the sampled colour map to build the ListedColormap
listedRange(nColors, e) == Range(e[1], nColors + 1 - e[2] + e[1])

\* The call past the checks of the arguments, with the levels chosen
colorLevels(sMin, sMax, levels, extendArg) ==
  LET nColors == Len(levels) - 1
      extend == chooseExtend(sMin, sMax, levels, extendArg)
      e == eColors(extend)
      lut == lutSize(nColors, e)
      listed == listedRange(nColors, e)
  IN  [raised |-> "none",
       levels |-> levels,
       nColors |-> nColors,
       extend |-> extend,
       lut |-> lut,
       listed |-> listed,
       under |-> IF e[1] > 0 THEN Some(0) ELSE NoneInt,
       over |-> IF e[2] > 0 THEN Some(lut - 1) ELSE NoneInt,
       ncolors |-> Len(listed)]

\* What stands in the result when the call raised before computing it
RaisedLevels(msg) ==
  [raised |-> msg, levels |-> <<>>, nColors |-> 0, extend |-> "None",
   lut |-> 0, listed |-> <<>>, under |-> NoneInt, over |-> NoneInt,
   ncolors |-> 0]

ChooseColorLevelsCall ==
  /\ op = "init"
  /\ \E sMin \in DataVals, sMax \in DataVals, cLim \in OptLims,
        nBins \in OptBins, extend \in ExtendArgs :
    LET err == levelSpecError(cLim, nBins)
    IN  /\ op' = "chooseColorLevels"
        /\ args' = [sMin |-> sMin, sMax |-> sMax, cLim |-> cLim,
                    nBins |-> nBins, extend |-> extend]
        /\ IF err # "none"
             THEN result' = RaisedLevels(err)
             ELSE \E levels \in chooseLevels(sMin, sMax, cLim, nBins) :
                    result' = colorLevels(sMin, sMax, levels, extend)
        /\ UNCHANGED heap

(***************************************************************************)
(* The colour levels of the plot functions: xyplot (m6plot.py 61-63) and   *)
(* yzplot (572-574) call chooseColorLevels once; xycompare (243-247,       *)
(* 283-286) and yzcompare (670-674, 711-714) call it for the field panels  *)
(* and then, when nPanels is 1 or 3, for the difference panel.  The text   *)
(* of the two single-panel functions is the same, and so is that of the    *)
(* two compare functions: fn names the one called.  The extremes handed to *)
(* the calls are statistics of the fields; here they are drawn from the    *)
(* values below.                                                           *)
(***************************************************************************)
\* The outcomes of chooseColorLevels(sMin, sMax, colorMapName, cLim=cLim,
\* nBins=nBins, extend=extend): one for each sequence the locator may return
chooseColorLevels(sMin, sMax, cLim, nBins, extend) ==
  IF levelSpecError(cLim, nBins) # "none"
    THEN {RaisedLevels(levelSpecError(cLim, nBins))}
    ELSE {colorLevels(sMin, sMax, levels, extend) :
            levels \in chooseLevels(sMin, sMax, cLim, nBins)}

\* Mutant: nBins is set to 35 whenever the caller gave none
defaultBins_always(nBins, lim) ==
  IF ~nBins.some THEN Some(DefaultBins) ELSE nBins

\* if nBins==None and (cLim==None or len(cLim)==2): nBins=35
defaultBins(nBins, lim) ==
  IF ~nBins.some /\ (~lim.some \/ Len(lim.val) = 2)
    THEN Some(DefaultBins)
    ELSE nBins

\* The extremes of a field: the least and the greatest of DataVals
PlotVals == {0, MaxVal}

\* (min, max) of a field
PlotExtremes == {p \in PlotVals \X PlotVals : p[1] <= p[2]}

\* cLim, dLim: None, a colour range, or a list of colour levels
PlotLims == {NoneSeq, Some(<<1, 2>>), Some(<<1, 2, 3>>)}

\* nBins: None, or a number of colours
PlotBins == {NoneInt, Some(2)}

\* xyplot, yzplot: the default of nBins and the call
PlotLevelsCall ==
  /\ op = "init"
  /\ \E fn \in {"xyplot", "yzplot"}, s \in PlotExtremes, cLim \in PlotLims,
        nBins \in PlotBins, extend \in ExtendArgs :
       /\ op' = "plotLevels"
       /\ args' = [fn |-> fn, sMin |-> s[1], sMax |-> s[2], cLim |-> cLim,
                   nBins |-> nBins, extend |-> extend]
       /\ \E call \in chooseColorLevels(s[1], s[2], cLim,
                                        defaultBins(nBins, cLim), extend) :
            result' = [nBins |-> defaultBins(nBins, cLim),
                       colormap |-> chooseColorMap(s[1], s[2]),
                       extend |-> IF call.raised = "none" THEN call.extend
                                  ELSE extend,
                       call |-> call]
       /\ UNCHANGED heap

\* xycompare, yzcompare up to the call for the field panels: cBins and
\* nBins are set, and the call assigns cmap, norm and extend
FieldLevelsCall ==
  /\ op = "init"
  /\ \E fn \in {"xycompare", "yzcompare"}, s12 \in PlotExtremes,
        d \in PlotExtremes, cLim \in PlotLims, dLim \in PlotLims,
        nBins \in PlotBins, extend \in ExtendArgs, nPanels \in 1..3 :
       /\ op' = "fieldLevels"
       /\ args' = [fn |-> fn, s12Min |-> s12[1], s12Max |-> s12[2],
                   dMin |-> d[1], dMax |-> d[2], cLim |-> cLim,
                   dLim |-> dLim, nBins |-> nBins, extend |-> extend,
                   nPanels |-> nPanels]
       /\ \E call \in chooseColorLevels(s12[1], s12[2], cLim,
                                        defaultBins(nBins, cLim), extend) :
            result' = [cBins |-> defaultBins(nBins, cLim),
                       nBins |-> defaultBins(nBins, dLim),
                       colormap |-> chooseColorMap(s12[1], s12[2]),
                       extend |-> IF call.raised = "none" THEN call.extend
                                  ELSE extend,
                       call |-> call]
       /\ UNCHANGED heap

\* xycompare, yzcompare: the call for the difference panel, with the nBins
\* and the extend that the lines before left; it assigns cmap, norm and
\* extend again
DiffLevelsCall ==
  /\ op = "fieldLevels"
  /\ result.call.raised = "none"
  /\ args.nPanels \in {1, 3}
  /\ op' = "diffLevels"
  /\ args' = args
  /\ \E call \in chooseColorLevels(args.dMin, args.dMax, args.dLim,
                                   result.nBins, result.extend) :
       result' = [cBins |-> result.cBins,
                  nBins |-> result.nBins,
                  colormap |-> chooseColorMap(args.dMin, args.dMax),
                  extend |-> IF call.raised = "none" THEN call.extend
                             ELSE result.extend,
                  call |-> call]
  /\ UNCHANGED heap

(***************************************************************************)
(* expand, expandI, expandJ (m6plot.py 418-456).  A coordinate x is held   *)
(* as the integer 8*x, and 0.5*v is the exact halving of an even v.        *)
(***************************************************************************)
Half(v) == v \div 2

\* The coordinate c.0 in eighths
Coord(c) == 8 * c

\* All nj x ni arrays over S, as sequences of rows
Arrays(S, nj, ni) == [1..nj -> [1..ni -> S]]

\* The shapes (nj, ni) with at most n values
Shapes(lo, n) == {sh \in (lo..n) \X (lo..n) : sh[1] * sh[2] <= n}

\* What stands in the result when the call raised
RaisedArray(msg) == [raised |-> msg, val |-> <<>>]

Returned(v) == [raised |-> "none", val |-> v]

\* Mutant: the middle values are not averaged
expand_noAverage(a) ==
  LET n == Len(a)
  IN  [k \in 1..(n + 1) |->
         IF k = 1 THEN a[1] + Half(a[1] - a[2])
         ELSE IF k = n + 1 THEN a[n] + Half(a[n] - a[n - 1])
         ELSE a[k - 1]]

\* Mutant: the last value is extrapolated inwards
expand_lastInwards(a) ==
  LET n == Len(a)
  IN  [k \in 1..(n + 1) |->
         IF k = 1 THEN a[1] + Half(a[1] - a[2])
         ELSE IF k = n + 1 THEN a[n] - Half(a[n] - a[n - 1])
         ELSE Half(a[k - 1] + a[k])]

\* expand(a) for a vector of at least 2 values: b[1:-1], b[0] and b[-1]
expand(a) ==
  LET n == Len(a)
  IN  [k \in 1..(n + 1) |->
         IF k = 1 THEN a[1] + Half(a[1] - a[2])
         ELSE IF k = n + 1 THEN a[n] + Half(a[n] - a[n - 1])
         ELSE Half(a[k - 1] + a[k])]

\* expandI(a) for an array of at least 2 columns: one more column
expandI(a) ==
  LET nj == Len(a)
      ni == Len(a[1])
  IN  [j \in 1..nj |->
         [i \in 1..(ni + 1) |->
            IF i = 1 THEN a[j][1] + Half(a[j][1] - a[j][2])
            ELSE IF i = ni + 1 THEN a[j][ni] + Half(a[j][ni] - a[j][ni - 1])
            ELSE Half(a[j][i - 1] + a[j][i])]]

\* expandJ(a) for an array of at least 2 rows: one more row
expandJ(a) ==
  LET nj == Len(a)
      ni == Len(a[1])
  IN  [j \in 1..(nj + 1) |->
         [i \in 1..ni |->
            IF j = 1 THEN a[1][i] + Half(a[1][i] - a[2][i])
            ELSE IF j = nj + 1 THEN a[nj][i] + Half(a[nj][i] - a[nj - 1][i])
            ELSE Half(a[j - 1][i] + a[j][i])]]

CoordVals == {Coord(c) : c \in 0..MaxCoord}

Coord2Vals == {Coord(c) : c \in 0..MaxCoord2}

\* a[1] of a vector of one value is an IndexError
ExpandCall ==
  /\ op = "init"
  /\ \E a \in SeqsOf(CoordVals, 1, MaxLen) :
       /\ op' = "expand"
       /\ args' = [a |-> a]
       /\ result' = IF Len(a) < 2 THEN RaisedArray("IndexError")
                    ELSE Returned(expand(a))
       /\ heap' = [a |-> a]

\* a[:,1] of an array of one column is an IndexError
ExpandICall ==
  /\ op = "init"
  /\ \E sh \in Shapes(1, MaxCells) : \E a \in Arrays(Coord2Vals, sh[1], sh[2]) :
       /\ op' = "expandI"
       /\ args' = [a |-> a]
       /\ result' = IF sh[2] < 2 THEN RaisedArray("IndexError")
                    ELSE Returned(expandI(a))
       /\ heap' = [a |-> a]

\* a[1,:] of an array of one row is an IndexError
ExpandJCall ==
  /\ op = "init"
  /\ \E sh \in Shapes(1, MaxCells) : \E a \in Arrays(Coord2Vals, sh[1], sh[2]) :
       /\ op' = "expandJ"
       /\ args' = [a |-> a]
       /\ result' = IF sh[1] < 2 THEN RaisedArray("IndexError")
                    ELSE Returned(expandJ(a))
       /\ heap' = [a |-> a]

(***************************************************************************)
(* createXYcoords (m6plot.py 391-415).  The field s enters by its shape    *)
(* (nj, ni).  A coordinate argument is None, a 1D array or a 2D array; it  *)
(* is held as a record of its kind and its rows, a 1D array as one row.    *)
(***************************************************************************)
NoCoord == [kind |-> "None", v |-> <<>>]

Coord1D(row) == [kind |-> "1D", v |-> <<row>>]

Coord2D(a) == [kind |-> "2D", v |-> a]

\* The shape of a 2D array
ShapeOf(a) == <<Len(a), Len(a[1])>>

\* numpy.arange(0., n+1)
arange(n) == [i \in 1..(n + 1) |-> Coord(i - 1)]

\* numpy.matlib.repmat(row, m, 1): m rows equal to row
repmatRows(row, m) == [j \in 1..m |-> row]

\* numpy.matlib.repmat(col.T, n, 1).T: n columns equal to col
repmatCols(col, n) == [j \in 1..Len(col) |-> [i \in 1..n |-> col[j]]]

RaisedCoords(msg) == [raised |-> msg, xCoord |-> <<>>, yCoord |-> <<>>]

\* Lines 403-405: a 1D xCoord is repeated over yCoord.shape[0] rows
xCoord2D(xCoord, yCoord) ==
  IF xCoord.kind = "1D"
    THEN repmatRows(xCoord.v[1],
                    IF yCoord.kind = "1D" THEN Len(yCoord.v[1])
                    ELSE Len(yCoord.v))
    ELSE xCoord.v

\* Lines 406-407: a 1D yCoord is repeated over the columns of the 2D xCoord
yCoord2D(x2, yCoord) ==
  IF yCoord.kind = "1D" THEN repmatCols(yCoord.v[1], Len(x2[1]))
  ELSE yCoord.v

\* createXYcoords(s, x, y) for s of shape (nj, ni)
createXYcoords(nj, ni, x, y) ==
  LET xCoord == IF x.kind = "None" THEN Coord1D(arange(ni)) ELSE x
      yCoord == IF y.kind = "None" THEN Coord1D(arange(nj)) ELSE y
      x2 == xCoord2D(xCoord, yCoord)
      y2 == yCoord2D(x2, yCoord)
  IN  IF ShapeOf(x2) # ShapeOf(y2)
        THEN RaisedCoords("The shape of coordinates are mismatched!")
      ELSE IF <<nj, ni>> = ShapeOf(x2)
        THEN IF ni < 2 \/ nj < 2 THEN RaisedCoords("IndexError")
             ELSE [raised |-> "none",
                   xCoord |-> expandJ(expandI(x2)),
                   yCoord |-> expandJ(expandI(y2))]
      ELSE [raised |-> "none", xCoord |-> x2, yCoord |-> y2]

\* x[i] = x0 + i, for i from 0
Ramp1D(n, x0) == [i \in 1..n |-> Coord(x0 + i - 1)]

\* a[j][i] = x0 + i + skew*j along the rows, or with i and j exchanged
Ramp2D(nj, ni, x0, skew, alongRows) ==
  [j \in 1..nj |-> [i \in 1..ni |->
     IF alongRows THEN Coord(x0 + (i - 1) + skew * (j - 1))
     ELSE Coord(x0 + (j - 1) + skew * (i - 1))]]

\* The coordinate arguments for an axis of n cells of a field (nj, ni):
\* None, 1D of the centre length n or the corner length n+1, 2D of the
\* centre shape or the corner shape
CoordArgs(n, nj, ni, alongRows) ==
  {NoCoord}
    \cup {Coord1D(Ramp1D(len, x0)) : len \in {n, n + 1}, x0 \in 0..1}
    \cup {Coord2D(Ramp2D(nj + d, ni + d, x0, skew, alongRows)) :
            d \in 0..1, x0 \in 0..1, skew \in 0..1}

CreateXYcoordsCall ==
  /\ op = "init"
  /\ \E nj \in 1..MaxXY, ni \in 1..MaxXY :
       \E x \in CoordArgs(ni, nj, ni, TRUE), y \in CoordArgs(nj, nj, ni, FALSE) :
         /\ op' = "createXYcoords"
         /\ args' = [nj |-> nj, ni |-> ni, x |-> x, y |-> y]
         /\ result' = createXYcoords(nj, ni, x, y)
         /\ heap' = [x |-> x, y |-> y]

(***************************************************************************)
(* boundaryStats (m6plot.py 459-471).                                      *)
(***************************************************************************)
SetMin(S) == CHOOSE x \in S : \A y \in S : x <= y

SetMax(S) == CHOOSE x \in S : \A y \in S : x >= y

\* The values of a[rows, cols], rows and cols being sets of indices from 1
Slice(a, rows, cols) == {a[j][i] : j \in rows, i \in cols}

\* numpy.amin and numpy.amax of an empty slice raise ValueError; the four
\* slices are a[0,:], a[1:,-1], a[-1,:-1] and a[1:-1,0]
boundaryStats(a) ==
  LET nj == Len(a)
      ni == Len(a[1])
      top == Slice(a, {1}, 1..ni)
      right == Slice(a, 2..nj, {ni})
      bottom == Slice(a, {nj}, 1..(ni - 1))
      left == Slice(a, 2..(nj - 1), {1})
  IN  IF top = {} \/ right = {} \/ bottom = {} \/ left = {}
        THEN [raised |-> "ValueError", amin |-> 0, amax |-> 0]
        ELSE [raised |-> "none",
              amin |-> Min2(Min2(Min2(SetMin(top), SetMin(right)),
                                 SetMin(bottom)), SetMin(left)),
              amax |-> Max2(Max2(Max2(SetMax(top), SetMax(right)),
                                 SetMax(bottom)), SetMax(left))]

EdgeVals == 0..MaxEdge

\* The argument is a corner array: at least 2 rows and 2 columns
BoundaryStatsCall ==
  /\ op = "init"
  /\ \E sh \in Shapes(2, MaxCorners) : \E a \in Arrays(EdgeVals, sh[1], sh[2]) :
       /\ op' = "boundaryStats"
       /\ args' = [a |-> a]
       /\ result' = boundaryStats(a)
       /\ heap' = [a |-> a]

(***************************************************************************)
(* myStats (m6plot.py 354-373).  The field s is a masked array: its values *)
(* and its mask, cell by cell (the reductions of myStats run over all the  *)
(* cells of the array, so the cells are numbered 1..n whatever its shape). *)
(* A number is a record: kind "num" is num/den, kind "sqrt" is the square  *)
(* root of num/den, and the kinds "None", "nan", "inf" and "masked" are    *)
(* Python's None, the doubles nan and inf and numpy.ma.masked.             *)
(***************************************************************************)
Num(n) == [kind |-> "num", num |-> n, den |-> 1]

NoneNum == [kind |-> "None", num |-> 0, den |-> 1]

NaN == [kind |-> "nan", num |-> 0, den |-> 1]

Masked == [kind |-> "masked", num |-> 0, den |-> 1]

Cells(s) == 1..Len(s.val)

Unmasked(s) == {k \in Cells(s) : ~s.mask[k]}

\* The sum of f[k] over the cells k of S
RECURSIVE SumOver(_, _)
SumOver(f, S) ==
  IF S = {} THEN 0
  ELSE LET k == CHOOSE x \in S : TRUE
       IN  f[k] + SumOver(f, S \ {k})

\* numpy.ma.min(s), numpy.ma.max(s): over the unmasked cells, and masked
\* when there is none
maMin(s) ==
  IF Unmasked(s) = {} THEN Masked
  ELSE Num(SetMin({s.val[k] : k \in Unmasked(s)}))

maMax(s) ==
  IF Unmasked(s) = {} THEN Masked
  ELSE Num(SetMax({s.val[k] : k \in Unmasked(s)}))

\* Mutant: weight names the array of the caller instead of a copy of it
copyRef_alias(name, fresh) == name

\* a.copy(): the array named fresh, new and equal to the array named name
copyRef(name, fresh) == fresh

\* The array area of the caller after "weight = area.copy()" and, when s
\* has a masked cell, "weight[s.mask] = 0.": the assignment writes the
\* array that weight names
areaAfterWeighting(s, area) ==
  LET weight == copyRef("area", "weight")
      copied == [area |-> area, weight |-> area]
      zeroed == [k \in Cells(s) |-> IF s.mask[k] THEN 0 ELSE copied[weight][k]]
      written == IF \E k \in Cells(s) : s.mask[k]
                   THEN [copied EXCEPT ![weight] = zeroed]
                   ELSE copied
  IN  written.area

\* The argument area of myStats after the call: lines 360-363 are not
\* reached for area None
areaAfterStats(s, area) ==
  IF area.some THEN Some(areaAfterWeighting(s, area.val)) ELSE area

\* Mutant: the weight of a masked cell is left at its area
statsWeight_maskKept(s, area) == area

\* weight = area.copy(); weight[s.mask] = 0. when s has a masked cell
statsWeight(s, area) ==
  IF \E k \in Cells(s) : s.mask[k]
    THEN [k \in Cells(s) |-> IF s.mask[k] THEN 0 ELSE area[k]]
    ELSE area

\* The double p/q: numpy divides by zero without raising, to nan or to inf
Quotient(p, q) ==
  IF q # 0 THEN [kind |-> "num", num |-> p, den |-> q]
  ELSE IF p = 0 THEN NaN
  ELSE [kind |-> "inf", num |-> p, den |-> 1]

\* math.sqrt of the double p/q
SqrtQuotient(p, q) ==
  IF q # 0 THEN [kind |-> "sqrt", num |-> p, den |-> q]
  ELSE IF p = 0 THEN NaN
  ELSE [kind |-> "inf", num |-> p, den |-> 1]

\* myStats past the return for area None.  The sums of the masked products
\* weight*s run over the unmasked cells and are masked when there is none;
\* a masked sum stays masked through the division, and math.sqrt turns it
\* into nan.  With P and W the sums of weight*s and of weight, mean is P/W
\* and sum(weight*(s-mean)**2)/W is sum(weight*(s*W-P)**2)/W**3.
weightedStats(s, area) ==
  LET weight == statsWeight(s, area)
      sumArea == SumOver(weight, Cells(s))
      U == Unmasked(s)
      P == SumOver([k \in Cells(s) |-> weight[k] * s.val[k]], U)
      D == SumOver([k \in Cells(s) |->
                      weight[k] * (s.val[k] * sumArea - P)
                                * (s.val[k] * sumArea - P)], U)
      Q == SumOver([k \in Cells(s) |-> weight[k] * s.val[k] * s.val[k]], U)
  IN  IF U = {}
        THEN [mean |-> Masked, std |-> NaN, rms |-> NaN]
        ELSE [mean |-> Quotient(P, sumArea),
              std |-> IF sumArea = 0 THEN NaN
                      ELSE SqrtQuotient(D, sumArea * sumArea * sumArea),
              rms |-> SqrtQuotient(Q, sumArea)]

\* myStats(s, area): no statement of it raises
myStats(s, area) ==
  IF ~area.some
    THEN [raised |-> "none", sMin |-> maMin(s), sMax |-> maMax(s),
          mean |-> NoneNum, std |-> NoneNum, rms |-> NoneNum]
    ELSE LET w == weightedStats(s, area.val)
         IN  [raised |-> "none", sMin |-> maMin(s), sMax |-> maMax(s),
              mean |-> w.mean, std |-> w.std, rms |-> w.rms]

FieldVals == (0 - 1)..MaxFieldVal

AreaVals == 0..MaxArea

\* The masked fields of n cells
Fields(n) == [val : [1..n -> FieldVals], mask : [1..n -> BOOLEAN]]

\* area: None, or an array of the shape of the field
OptAreas(n) == {NoneSeq} \cup {Some(a) : a \in [1..n -> AreaVals]}

MyStatsCall ==
  /\ op = "init"
  /\ \E n \in 1..MaxField : \E s \in Fields(n), area \in OptAreas(n) :
       /\ op' = "myStats"
       /\ args' = [s |-> s, area |-> area]
       /\ result' = myStats(s, area)
       /\ heap' = [area |-> areaAfterStats(s, area)]

(***************************************************************************)
(* corr (m6plot.py 376-388).  The fields s1 and s2 are masked arrays over  *)
(* the same cells as area.  The product of masked arrays is masked where   *)
(* either factor is, and numpy.ma.sum runs over the unmasked cells and is  *)
(* masked when there is none.  With W = sumArea and V1, V2, C the sums of  *)
(* weight*s1**2, weight*s2**2 and weight*s1*s2, the value returned for     *)
(* W > 0 is (C/W)/sqrt((V1/W)*(V2/W)) = C/sqrt(V1*V2): kind "corr" holds   *)
(* it as num = C and den = V1*V2.                                          *)
(***************************************************************************)
\* weight = area.copy(); weight[s1.mask] = 0. when s1 has a masked cell
corrWeight(s1, area) ==
  IF \E k \in Cells(s1) : s1.mask[k]
    THEN [k \in Cells(s1) |-> IF s1.mask[k] THEN 0 ELSE area[k]]
    ELSE area

\* Mutant: the variances are summed without the weight
corrSquares_unweighted(weight, s, U) ==
  SumOver([k \in DOMAIN weight |-> s.val[k] * s.val[k]], U)

\* numpy.ma.sum( weight*(s**2) ) over the cells U that the product leaves
\* unmasked
corrSquares(weight, s, U) ==
  SumOver([k \in DOMAIN weight |-> weight[k] * s.val[k] * s.val[k]], U)

\* Mutant: the cross products are summed without the weight
corrCross_unweighted(weight, s1, s2, U) ==
  SumOver([k \in DOMAIN weight |-> s1.val[k] * s2.val[k]], U)

\* numpy.ma.sum( weight*(s1*s2) ) over the cells U unmasked in both
corrCross(weight, s1, s2, U) ==
  SumOver([k \in DOMAIN weight |-> weight[k] * s1.val[k] * s2.val[k]], U)

\* Mutant: the test for a zero variance is left out
corr_noZeroTest(s1, s2, area) ==
  LET weight == corrWeight(s1, area)
      U1 == Unmasked(s1)
      U2 == Unmasked(s2)
  IN  IF SumOver(weight, Cells(s1)) = 0
        THEN IF U1 \cap U2 = {} THEN Masked ELSE NaN
      ELSE IF U2 = {} THEN Masked
      ELSE [kind |-> "corr",
            num |-> corrCross(weight, s1, s2, U1 \cap U2),
            den |-> corrSquares(weight, s1, U1)
                      * corrSquares(weight, s2, U2)]

\* corr(s1, s2, area).  A masked sum is neither zero nor a number: the test
\* v==0 is then masked, which is false, and the quotient returned is
\* masked.  With sumArea zero the quotients are 0/0, nan, and so is rxy.
corr(s1, s2, area) ==
  LET weight == corrWeight(s1, area)
      sumArea == SumOver(weight, Cells(s1))
      U1 == Unmasked(s1)
      U2 == Unmasked(s2)
      V1 == corrSquares(weight, s1, U1)
      V2 == corrSquares(weight, s2, U2)
      C == corrCross(weight, s1, s2, U1 \cap U2)
  IN  IF sumArea = 0
        THEN IF U1 \cap U2 = {} THEN Masked ELSE NaN
      ELSE IF V1 = 0 THEN NaN
      ELSE IF U2 = {} THEN Masked
      ELSE IF V2 = 0 THEN NaN
      ELSE [kind |-> "corr", num |-> C, den |-> V1 * V2]

PairVals == (0 - 1)..1

PairAreas == 0..2

\* The masked fields of n cells handed to corr; a masked cell stores 0
PairFields(n) ==
  {s \in [val : [1..n -> PairVals], mask : [1..n -> BOOLEAN]] :
     \A k \in 1..n : s.mask[k] => s.val[k] = 0}

CorrCall ==
  /\ op = "init"
  /\ \E n \in 1..MaxPair :
       \E s1 \in PairFields(n), s2 \in PairFields(n),
          area \in [1..n -> PairAreas] :
         /\ op' = "corr"
         /\ args' = [s1 |-> s1, s2 |-> s2, area |-> area]
         /\ result' = [raised |-> "none", rxy |-> corr(s1, s2, area)]
         /\ heap' = [area |-> areaAfterWeighting(s1, area)]

(***************************************************************************)
(* The statistics of xycompare (m6plot.py 218, 226-235).  field1 and       *)
(* field2 are plain arrays, masked where they hold the value ignore.  The  *)
(* fields handed to corr are de-meaned: with the mean P/W, W > 0, the cell *)
(* value s - P/W is held as s*W - P, W times as large; the value of corr   *)
(* is the same for a field and for a positive multiple of it.              *)
(***************************************************************************)
\* numpy.ma.masked_array(field, mask=[field==ignore]), or field.copy()
maskedField(field, ignore) ==
  [val |-> field,
   mask |-> [k \in DOMAIN field |-> ignore.some /\ field[k] = ignore.val]]

\* maskedField1 - maskedField2: masked where either field is, and a masked
\* cell stores the value of the first
fieldDifference(m1, m2) ==
  [val |-> [k \in Cells(m1) |->
              IF m1.mask[k] \/ m2.mask[k] THEN m1.val[k]
              ELSE m1.val[k] - m2.val[k]],
   mask |-> [k \in Cells(m1) |-> m1.mask[k] \/ m2.mask[k]]]

\* maskedField - sMean for a mean that is a number
deMeaned(m, mean) ==
  [val |-> [k \in Cells(m) |->
              IF m.mask[k] THEN m.val[k] ELSE m.val[k] * mean.den - mean.num],
   mask |-> m.mask]

\* corr(maskedField1 - s1Mean, maskedField2 - s2Mean, area).  A mean that
\* is nan makes every cell of its de-meaned field nan: the sums over it
\* are nan, which is not zero, or masked when the sum is over no cell.  A
\* masked mean makes every cell masked.
corrOfDeMeaned(m1, mean1, m2, mean2, area) ==
  LET both == Unmasked(m1) \cap Unmasked(m2)
  IN  IF mean1.kind = "num" /\ mean2.kind = "num"
        THEN corr(deMeaned(m1, mean1), deMeaned(m2, mean2), area)
      ELSE IF mean1.kind = "num" /\ mean2.kind = "masked"
        THEN corr(deMeaned(m1, mean1), m2, area)
      ELSE IF mean1.kind = "num"
        THEN IF corrSquares(corrWeight(m1, area), deMeaned(m1, mean1),
                            Unmasked(m1)) = 0
               THEN NaN
               ELSE IF both = {} THEN Masked ELSE NaN
      ELSE IF both = {} THEN Masked ELSE NaN

\* Mutant: corr is called whatever s1Mean is (as line 661 of yzcompare does)
xyCorrelation_unguarded(m1, st1, m2, st2, area) ==
  {[called |-> TRUE,
    dRxy |-> IF area.some
               THEN corrOfDeMeaned(m1, st1.mean, m2, st2.mean, area.val)
               ELSE NaN]}

\* Lines 233-234: the outcomes (called, dRxy).  corr is called when
\* s1Mean!=None.  For a masked s1Mean the comparison itself is masked, and
\* its truth value depends on the numpy at hand: both branches are outcomes.
xyCorrelation(m1, st1, m2, st2, area) ==
  LET skipped == [called |-> FALSE, dRxy |-> NoneNum]
      computed ==
        [called |-> TRUE,
         dRxy |-> corrOfDeMeaned(m1, st1.mean, m2, st2.mean, area.val)]
  IN  IF st1.mean = NoneNum THEN {skipped}
      ELSE IF st1.mean = Masked THEN {skipped, computed}
      ELSE {computed}

\* min(a, b) of Python: b if b < a else a; a masked comparison is false
pyMin(a, b) == IF a.kind = "num" /\ b.kind = "num" /\ b.num < a.num THEN b ELSE a

\* max(a, b) of Python: b if b > a else a
pyMax(a, b) == IF a.kind = "num" /\ b.kind = "num" /\ b.num > a.num THEN b ELSE a

RaisedStats(msg) == [raised |-> msg]

\* The outcomes of lines 218 and 226-235 for two fields of the same shape
xycompareStats(field1, field2, ignore, area) ==
  LET m1 == maskedField(field1, ignore)
      m2 == maskedField(field2, ignore)
      st1 == myStats(m1, area)
      st2 == myStats(m2, area)
      d == myStats(fieldDifference(m1, m2), area)
  IN  {[raised |-> "none", s1 |-> st1, s2 |-> st2, d |-> d,
        corrCalled |-> c.called, dRxy |-> c.dRxy,
        s12Min |-> pyMin(st1.sMin, st2.sMin),
        s12Max |-> pyMax(st1.sMax, st2.sMax)] :
         c \in xyCorrelation(m1, st1, m2, st2, area)}

\* The argument area of xycompare after lines 228-233: the three calls of
\* myStats and the call of corr each work on the array that the one before
\* left
areaAfterCompare(field1, field2, ignore, area, corrCalled) ==
  LET m1 == maskedField(field1, ignore)
      m2 == maskedField(field2, ignore)
      a1 == areaAfterStats(m1, area)
      a2 == areaAfterStats(m2, a1)
      a3 == areaAfterStats(fieldDifference(m1, m2), a2)
  IN  IF corrCalled /\ a3.some THEN Some(areaAfterWeighting(m1, a3.val))
      ELSE a3

\* ignore: None, or a value of the fields
OptIgnore == {NoneInt} \cup {Some(v) : v \in PairVals}

\* area: None, or an array of the shape of field1
OptPairAreas(n) == {NoneSeq} \cup {Some(a) : a \in [1..n -> PairAreas]}

XYCompareStatsCall ==
  /\ op = "init"
  /\ \E n1 \in 1..MaxPair, n2 \in 1..MaxPair :
       \E field1 \in [1..n1 -> PairVals], field2 \in [1..n2 -> PairVals],
          ignore \in OptIgnore, area \in OptPairAreas(n1) :
         /\ op' = "xycompare"
         /\ args' = [field1 |-> field1, field2 |-> field2,
                     ignore |-> ignore, area |-> area]
         /\ IF n1 # n2
              THEN /\ result' = RaisedStats(
                                "field1 and field2 must be the same shape")
                   /\ heap' = [area |-> area]
              ELSE /\ result' \in
                        xycompareStats(field1, field2, ignore, area)
                   /\ heap' = [area |-> areaAfterCompare(
                                          field1, field2, ignore, area,
                                          result'.corrCalled)]

(***************************************************************************)
(* The zoom of addInteractiveCallbacks (m6plot.py 98-118) and newLims      *)
(* (157-172).  The limits of the axes are integers: the saved extent is    *)
(* 4*3**MaxZoomIn wide and high, so that halving a range and scaling it by *)
(* 1.5 are exact, and scaling by 1/1.5 is exact MaxZoomIn times in a row;  *)
(* the model takes no scroll-up past that.  A scale factor is the pair     *)
(* (num, den).                                                             *)
(***************************************************************************)
RECURSIVE Pow3(_)
Pow3(n) == IF n = 0 THEN 1 ELSE 3 * Pow3(n - 1)

\* Half the width of the saved extent
FullHalf == 2 * Pow3(MaxZoomIn)

NoLims == [none |-> TRUE, x |-> <<0, 0>>, y |-> <<0, 0>>]

\* Mutant: the new limits are centred on the cursor and not held inside
\* the saved extent
newLims_unclamped(cur_xlim, cur_ylim, cursor, xlim, ylim, num, den) ==
  LET new_xrange == (((cur_xlim[2] - cur_xlim[1]) \div 2) * num) \div den
      new_yrange == (((cur_ylim[2] - cur_ylim[1]) \div 2) * num) \div den
      x == <<cursor[1] - new_xrange, cursor[1] + new_xrange>>
      y == <<cursor[2] - new_yrange, cursor[2] + new_yrange>>
  IN  IF x = cur_xlim /\ y = cur_ylim THEN NoLims
      ELSE [none |-> FALSE, x |-> x, y |-> y]

\* newLims(cur_xlim, cur_ylim, cursor, xlim, ylim, scale_factor) for the
\* scale factor num/den
newLims(cur_xlim, cur_ylim, cursor, xlim, ylim, num, den) ==
  LET cur_xrange == (cur_xlim[2] - cur_xlim[1]) \div 2
      cur_yrange == (cur_ylim[2] - cur_ylim[1]) \div 2
      new_xrange == (cur_xrange * num) \div den
      new_yrange == (cur_yrange * num) \div den
      xdata == Min2(Max2(cursor[1], xlim[1] + new_xrange),
                    xlim[2] - new_xrange)
      xL == Max2(xlim[1], xdata - new_xrange)
      xR == Min2(xlim[2], xdata + new_xrange)
      ydata == IF ylim[2] > ylim[1]
                 THEN Min2(Max2(cursor[2], ylim[1] + new_yrange),
                           ylim[2] - new_yrange)
                 ELSE Min2(Max2(cursor[2], ylim[2] - new_yrange),
                           ylim[1] + new_yrange)
      yL == IF ylim[2] > ylim[1] THEN Max2(ylim[1], ydata - new_yrange)
            ELSE Min2(ylim[1], ydata - new_yrange)
      yR == IF ylim[2] > ylim[1] THEN Min2(ylim[2], ydata + new_yrange)
            ELSE Max2(ylim[2], ydata + new_yrange)
  IN  IF xL = cur_xlim[1] /\ xR = cur_xlim[2]
           /\ yL = cur_ylim[1] /\ yR = cur_ylim[2]
        THEN NoLims
        ELSE [none |-> FALSE, x |-> <<xL, xR>>, y |-> <<yL, yR>>]

\* The events the handler is connected to: the scroll wheel and the mouse
\* buttons
Buttons == {"up", "down", "2", "1"}

\* scaleFactor: 1/1.5, 1.5 or 1.0
scaleFactor(button) ==
  IF button = "up" THEN <<2, 3>>
  ELSE IF button = "down" THEN <<3, 2>>
  ELSE <<1, 1>>

\* The cursor positions inside the axes: the edges and the quarter points
CursorsIn(lim) == {lim[1] + k * ((lim[2] - lim[1]) \div 4) : k \in 0..4}

\* save = hiddenStore(plt.gca()): the limits of the axes on screen are
\* saved; x increases, y runs either way
AddInteractiveCallbacks ==
  /\ op = "init"
  /\ \E ylim \in {<<0 - FullHalf, FullHalf>>, <<FullHalf, 0 - FullHalf>>} :
       /\ op' = "interactive"
       /\ args' = [xMin |-> 0, xMax |-> 2 * FullHalf,
                   yMin |-> ylim[1], yMax |-> ylim[2]]
       /\ result' = [xlim |-> <<0, 2 * FullHalf>>, ylim |-> ylim,
                     button |-> "none", returned |-> NoLims,
                     applied |-> FALSE, moved |-> FALSE]
  /\ UNCHANGED heap

\* zoom(event): a scroll or a button press at a cursor position inside the
\* axes.  Buttons other than the wheel and the middle one return at once;
\* so does the marker (None, None) of newLims; otherwise the limits are set
\* (applied), and moved tells whether they differ from those before.
Zoom ==
  /\ op = "interactive"
  /\ \E button \in Buttons :
       \E cx \in CursorsIn(result.xlim), cy \in CursorsIn(result.ylim) :
         LET lims == newLims(result.xlim, result.ylim, <<cx, cy>>,
                             <<args.xMin, args.xMax>>,
                             <<args.yMin, args.yMax>>,
                             scaleFactor(button)[1], scaleFactor(button)[2])
         IN  /\ button = "up" =>
                  (result.xlim[2] - result.xlim[1]) % (2 * 3) = 0
             /\ result' =
                  IF button = "1" \/ lims.none
                    THEN [result EXCEPT !.button = button,
                                        !.returned = NoLims,
                                        !.applied = FALSE,
                                        !.moved = FALSE]
                  ELSE [xlim |-> lims.x, ylim |-> lims.y,
                        button |-> button, returned |-> lims,
                        applied |-> TRUE,
                        moved |-> lims.x # result.xlim
                                    \/ lims.y # result.ylim]
  /\ UNCHANGED <<op, args, heap>>

(***************************************************************************)
(* Claims about chooseColorLevels and chooseColorMap.                      *)
(***************************************************************************)
IsLevelsCall == op = "chooseColorLevels"

\* The three combinations of cLim and nBins the claim C1 names
NoLevelSpec == ~args.nBins.some /\ ~args.cLim.some

RangeWithoutBins ==
  args.cLim.some /\ Len(args.cLim.val) = 2 /\ ~args.nBins.some

LevelsWithBins ==
  args.cLim.some /\ Len(args.cLim.val) > 2 /\ args.nBins.some

\* C1: chooseColorLevels raises, with no level computed, when nBins and cLim
\* are both absent, when cLim has exactly 2 values and nBins is absent, and
\* when cLim has more than 2 values and nBins is given; in every other
\* combination where cLim, when given, has at least 2 values it raises no
\* level-specification exception.
C1_LevelSpecRaises ==
  IsLevelsCall =>
    /\ (NoLevelSpec \/ RangeWithoutBins \/ LevelsWithBins)
         => (result.raised # "none" /\ result.levels = <<>>)
    /\ ( /\ ~(NoLevelSpec \/ RangeWithoutBins \/ LevelsWithBins)
         /\ (args.cLim.some => Len(args.cLim.val) >= 2) )
         => (result.raised = "none" /\ Len(result.levels) >= 2)

\* C1 witness: explicit levels together with nBins, and the call raised
C1_Witness == IsLevelsCall /\ LevelsWithBins /\ result.raised # "none"

\* C2: with no extend supplied, the extend returned is 'both' iff
\* sMin < levels[0] and sMax > levels[-1], 'min' iff sMin < levels[0] and
\* sMax <= levels[-1], 'max' iff sMin >= levels[0] and sMax > levels[-1],
\* and 'neither' in every remaining case; exactly one of the four applies.
C2_ExtendFromData ==
  (IsLevelsCall /\ result.raised = "none" /\ args.extend = "None") =>
    LET lo == result.levels[1]
        hi == result.levels[Len(result.levels)]
        below == args.sMin < lo
        above == args.sMax > hi
    IN  /\ result.extend \in {"both", "min", "max", "neither"}
        /\ (result.extend = "both") <=> (below /\ above)
        /\ (result.extend = "min") <=> (below /\ args.sMax <= hi)
        /\ (result.extend = "max") <=> (args.sMin >= lo /\ above)
        /\ (result.extend = "neither") <=> (~below /\ ~above)

\* C2 witness: sMax equal to the last level and sMin below the first: 'min'
C2_Witness ==
  /\ IsLevelsCall /\ result.raised = "none" /\ args.extend = "None"
  /\ args.sMin < result.levels[1]
  /\ args.sMax = result.levels[Len(result.levels)]
  /\ result.extend = "min"

\* C3: for every nColors >= 1 and every extend, nColors + e0 + e1 colours are
\* sampled, and the interior colour list has exactly nColors entries, each a
\* valid index of the sampled table and none of them the sample used as the
\* under colour (index 0) or as the over colour (the last index).  Stated
\* over well-formed (strictly increasing) levels.
C3_InteriorColours ==
  ( /\ IsLevelsCall /\ result.raised = "none" /\ result.nColors >= 1
    /\ StrictlyIncreasing(result.levels) ) =>
    LET e0 == IF result.extend \in {"both", "min"} THEN 1 ELSE 0
        e1 == IF result.extend \in {"both", "max"} THEN 1 ELSE 0
        idx == 1..Len(result.listed)
    IN  /\ result.lut = result.nColors + e0 + e1
        /\ Len(result.listed) = result.nColors
        /\ \A k \in idx : result.listed[k] \in 0..(result.lut - 1)
        /\ result.under.some =>
             \A k \in idx : result.listed[k] # result.under.val
        /\ result.over.some =>
             \A k \in idx : result.listed[k] # result.over.val

\* C4: the levels handed to the normalization are strictly increasing for
\* every input accepted without raising, explicit cLim levels included.
C4_LevelsStrictlyIncreasing ==
  (IsLevelsCall /\ result.raised = "none") =>
    StrictlyIncreasing(result.levels)

\* C5: chooseColorMap is total; it returns 'seismic' iff sMin<0 and sMax>0,
\* 'hot' iff sMax>0 and 0<=sMin<0.1*sMax, 'hot_r' iff sMin<0, sMax<=0 and
\* sMax>0.1*sMin, and 'spectral' otherwise, so for sMin=sMax=0.
C5_ColorMapPriority ==
  op = "chooseColorMap" =>
    LET sMin == args.sMin
        sMax == args.sMax
        seismic == sMin < 0 /\ sMax > 0
        hot == sMax > 0 /\ 0 <= sMin /\ 10 * sMin < sMax
        hot_r == sMin < 0 /\ sMax <= 0 /\ 10 * sMax > sMin
    IN  /\ result.name \in {"seismic", "hot", "hot_r", "spectral"}
        /\ (result.name = "seismic") <=> seismic
        /\ (result.name = "hot") <=> hot
        /\ (result.name = "hot_r") <=> hot_r
        /\ (result.name = "spectral") <=> ~(seismic \/ hot \/ hot_r)
        /\ (sMin = 0 /\ sMax = 0) => result.name = "spectral"

\* C5 witness: sMin exactly 0 below a positive sMax gives 'hot'
C5_Witness ==
  /\ op = "chooseColorMap" /\ args.sMin = 0 /\ args.sMax > 0
  /\ result.name = "hot"

(***************************************************************************)
(* Claims about the colour levels of the plot functions.                   *)
(***************************************************************************)
\* extend as the extremes lo, hi and the levels give it
ExtendOf(lo, hi, levels) ==
  IF lo < levels[1] /\ hi > levels[Len(levels)] THEN "both"
  ELSE IF lo < levels[1] THEN "min"
  ELSE IF hi > levels[Len(levels)] THEN "max"
  ELSE "neither"

\* C17: in xycompare and yzcompare with nPanels=3 and no extend supplied,
\* the extend used for the difference panel comes from comparing dMin and
\* dMax against the levels of the difference panel; it does not depend on
\* the extend that the call for the field panels derived.
C17_DiffExtendFromDiffLevels ==
  (/\ op = "diffLevels"
   /\ args.nPanels = 3
   /\ args.extend = "None"
   /\ result.call.raised = "none") =>
    result.call.extend = ExtendOf(args.dMin, args.dMax, result.call.levels)

\* nBins as the claim gives it for a caller who passed none
BinsFor(lim) ==
  IF ~lim.some \/ Len(lim.val) = 2 THEN Some(DefaultBins) ELSE NoneInt

\* C18: when the caller gives no nBins, no plot function raises a level
\* specification exception: xyplot and yzplot set nBins to 35 when cLim is
\* absent or has two values and leave it absent when cLim has more;
\* xycompare and yzcompare do so apart for the field call (cLim, cBins) and
\* for the difference call (dLim, nBins), and both calls are valid for every
\* combination of cLim and dLim.
C18_DefaultBinsValid ==
  /\ (op = "plotLevels" /\ ~args.nBins.some) =>
       /\ result.nBins = BinsFor(args.cLim)
       /\ result.call.raised = "none"
  /\ (op = "fieldLevels" /\ ~args.nBins.some) =>
       /\ result.cBins = BinsFor(args.cLim)
       /\ result.nBins = BinsFor(args.dLim)
       /\ result.call.raised = "none"
  /\ (op = "diffLevels" /\ ~args.nBins.some) =>
       /\ result.nBins = BinsFor(args.dLim)
       /\ result.call.raised = "none"

\* yzcompare without nBins, cLim a list of levels and dLim a range: the
\* difference call was made with 35 bins after a field call without
C18_Witness ==
  /\ op = "diffLevels"
  /\ args.fn = "yzcompare"
  /\ ~args.nBins.some
  /\ args.cLim.some
  /\ Len(args.cLim.val) > 2
  /\ args.dLim.some
  /\ Len(args.dLim.val) = 2
  /\ result.cBins = NoneInt
  /\ result.nBins = Some(DefaultBins)
  /\ result.call.raised = "none"
  /\ Len(result.call.levels) > 3

(***************************************************************************)
(* Claims about expand, expandI, expandJ and boundaryStats.                *)
(***************************************************************************)
\* The averages of the adjacent pairs of a vector of corner values
Centres(b) == [k \in 1..(Len(b) - 1) |-> Half(b[k] + b[k + 1])]

\* Column i of an array, as a vector
Column(a, i) == [j \in 1..Len(a) |-> a[j][i]]

\* The pairs (vector of centres, vector of corners made from it) of the call
\* in the state: the vector itself for expand, every row for expandI and
\* every column for expandJ
ExpandedPairs ==
  IF op \in {"expand", "expandI", "expandJ"} /\ result.raised = "none"
    THEN IF op = "expand" THEN {<<args.a, result.val>>}
         ELSE IF op = "expandI"
           THEN {<<args.a[j], result.val[j]>> : j \in 1..Len(args.a)}
         ELSE {<<Column(args.a, i), Column(result.val, i)>> :
                 i \in 1..Len(args.a[1])}
    ELSE {}

\* Cell i of the vector a lies midway between its two neighbours
MidwayAt(a, i) == a[i + 1] - a[i] = a[i] - a[i - 1]

\* C6 as stated: for every vector of at least 3 centres, the averages of the
\* adjacent pairs of expand(a) recover a[i] exactly at every interior cell;
\* the same along each axis for expandI and expandJ.
C6_RoundTripInterior ==
  \A p \in ExpandedPairs :
    Len(p[1]) >= 3 =>
      \A i \in 2..(Len(p[1]) - 1) : Centres(p[2])[i] = p[1][i]

\* C6 amended: the averages of the adjacent pairs of expand(a) give
\* 0.25*a[i-1] + 0.5*a[i] + 0.25*a[i+1] at an interior cell i, which is a[i]
\* exactly when a[i] lies midway between its neighbours, and they recover
\* the first and the last cell exactly; the same along each axis for expandI
\* and expandJ.
C6_RoundTripMidway ==
  \A p \in ExpandedPairs :
    LET a == p[1]
        c == Centres(p[2])
        n == Len(a)
    IN  /\ Len(c) = n
        /\ c[1] = a[1]
        /\ c[n] = a[n]
        /\ \A i \in 2..(n - 1) :
             /\ 4 * c[i] = a[i - 1] + 2 * a[i] + a[i + 1]
             /\ (c[i] = a[i]) <=> MidwayAt(a, i)

\* C6 witness: an expanded vector with an interior cell off the middle of its
\* neighbours, which the averages do not recover
C6_Witness ==
  /\ op = "expand" /\ result.raised = "none" /\ Len(args.a) >= 3
  /\ ~MidwayAt(args.a, 2)
  /\ Centres(result.val)[2] # args.a[2]

\* The rule of C7 between a vector a of centres and a vector b of corners
ExpandRule(a, b) ==
  LET n == Len(a)
  IN  /\ Len(b) = n + 1
      /\ \A k \in 2..n : 2 * b[k] = a[k - 1] + a[k]
      /\ 2 * b[1] = 2 * a[1] + (a[1] - a[2])
      /\ 2 * b[n + 1] = 2 * a[n] + (a[n] - a[n - 1])

\* C7: for every vector a of n >= 2 values expand(a) has n+1 values, value i
\* for 1 <= i <= n-1 is 0.5*(a[i-1]+a[i]), the first is a[0]+0.5*(a[0]-a[1])
\* and the last a[n-1]+0.5*(a[n-1]-a[n-2]), so expand([1,2,4]) is
\* [0.5,1.5,3,5]; expandI and expandJ apply the rule to every row and to
\* every column.
C7_ExpandRule ==
  /\ (op \in {"expand", "expandI", "expandJ"} /\ result.raised = "none")
       => ExpandedPairs # {}
  /\ \A p \in ExpandedPairs : ExpandRule(p[1], p[2])
  /\ (op = "expand" /\ Len(args.a) >= 2) => result.raised = "none"
  /\ (op = "expandI" /\ Len(args.a[1]) >= 2) =>
       (result.raised = "none" /\ Len(result.val) = Len(args.a))
  /\ (op = "expandJ" /\ Len(args.a) >= 2) =>
       ( /\ result.raised = "none"
         /\ \A j \in 1..Len(result.val) :
              Len(result.val[j]) = Len(args.a[1]) )
  /\ (op = "expand" /\ args.a = <<Coord(1), Coord(2), Coord(4)>>) =>
       result.val = <<Half(Coord(1)), Half(Coord(3)), Coord(3), Coord(5)>>

\* C7 witness: expand([1,2,4]) returned [0.5,1.5,3,5]
C7_Witness ==
  /\ op = "expand" /\ args.a = <<Coord(1), Coord(2), Coord(4)>>
  /\ result.val = <<Half(Coord(1)), Half(Coord(3)), Coord(3), Coord(5)>>

\* The values on the first and last row and the first and last column
Perimeter(a) ==
  {a[j][i] : j \in {1, Len(a)}, i \in 1..Len(a[1])}
    \cup {a[j][i] : j \in 1..Len(a), i \in {1, Len(a[1])}}

\* C8: for every corner array of at least 2 rows and 2 columns boundaryStats
\* returns the minimum and the maximum over exactly the values of the first
\* and last row and the first and last column, whatever the interior holds.
C8_BoundaryOnly ==
  op = "boundaryStats" =>
    /\ result.raised = "none"
    /\ result.amin = SetMin(Perimeter(args.a))
    /\ result.amax = SetMax(Perimeter(args.a))

(***************************************************************************)
(* Claims about createXYcoords.                                            *)
(***************************************************************************)
CornerShape == <<args.nj + 1, args.ni + 1>>

\* C16: for a field of shape (nj, ni) and every combination of absent, 1D
\* and 2D x and y (1D of the centre or the corner length), createXYcoords
\* either raises the shape mismatch exception or returns xCoord and yCoord
\* both of the corner shape (nj+1, ni+1); with both absent xCoord[j,i] = i
\* and yCoord[j,i] = j.
C16_CornerShapeOrMismatch ==
  op = "createXYcoords" =>
    \/ result.raised = "The shape of coordinates are mismatched!"
    \/ /\ result.raised = "none"
       /\ ShapeOf(result.xCoord) = CornerShape
       /\ ShapeOf(result.yCoord) = CornerShape
       /\ (args.x = NoCoord /\ args.y = NoCoord) =>
            \A j \in 1..(args.nj + 1), i \in 1..(args.ni + 1) :
              /\ result.xCoord[j][i] = Coord(i - 1)
              /\ result.yCoord[j][i] = Coord(j - 1)

\* The part of C16 that holds: with both coordinates absent the corner
\* arrays of indices are returned
C16_AbsentGivesIndices ==
  (op = "createXYcoords" /\ args.x = NoCoord /\ args.y = NoCoord) =>
    /\ result.raised = "none"
    /\ ShapeOf(result.xCoord) = CornerShape
    /\ ShapeOf(result.yCoord) = CornerShape
    /\ \A j \in 1..(args.nj + 1), i \in 1..(args.ni + 1) :
         /\ result.xCoord[j][i] = Coord(i - 1)
         /\ result.yCoord[j][i] = Coord(j - 1)

\* The returned arrays are of one shape, which is not the corner shape
C16_WrongShapeReturned ==
  /\ op = "createXYcoords"
  /\ args.nj >= 2
  /\ args.ni >= 2
  /\ result.raised = "none"
  /\ ShapeOf(result.xCoord) # CornerShape

(***************************************************************************)
(* Claims about myStats.                                                   *)
(***************************************************************************)
\* The call in the state is myStats with an area
IsWeightedStats == op = "myStats" /\ args.area.some

\* The total area of the unmasked cells
TotalWeight ==
  SumOver(args.area.val, Unmasked(args.s))

\* C9: with an area supplied and a zero total weight after the masked cells
\* are zeroed, myStats signals the error DegenerateWeights where it detects
\* it, and returns no mean, std or rms obtained from a division by zero.
C9_DegenerateWeightsRaised ==
  (IsWeightedStats /\ TotalWeight = 0) =>
    result.raised = "DegenerateWeights"

\* The unmasked cells of the field in the state, in order, as a sequence
UnmaskedCells == SelectSeq([k \in Cells(args.s) |-> k],
                           LAMBDA k : ~args.s.mask[k])

\* The values and the areas of the unmasked cells alone
KeptVal == [k \in 1..Len(UnmaskedCells) |-> args.s.val[UnmaskedCells[k]]]

KeptArea == [k \in 1..Len(UnmaskedCells) |-> args.area.val[UnmaskedCells[k]]]

\* p1/q1 = p2/q2 for non-zero denominators
SameQuotient(p1, q1, p2, q2) == p1 * q2 = p2 * q1

\* C10: with an area supplied, the weight is the area on the unmasked cells
\* and 0 on the masked ones and mean = sum(weight*field)/sum(weight): min,
\* max, mean, std and rms are those of the unmasked cells alone with their
\* areas, whatever the masked cells hold, and with a constant positive area
\* and no masked cell the mean is the arithmetic mean of the field.
C10_MaskedCellsCarryNoWeight ==
  (IsWeightedStats /\ TotalWeight # 0) =>
    LET K == 1..Len(UnmaskedCells)
        W == SumOver(KeptArea, K)
        P == SumOver([k \in K |-> KeptArea[k] * KeptVal[k]], K)
        D == SumOver([k \in K |-> KeptArea[k] * (KeptVal[k] * W - P)
                                              * (KeptVal[k] * W - P)], K)
        Q == SumOver([k \in K |-> KeptArea[k] * KeptVal[k] * KeptVal[k]], K)
        n == Len(args.s.val)
    IN  /\ result.raised = "none"
        /\ result.sMin = Num(SetMin({KeptVal[k] : k \in K}))
        /\ result.sMax = Num(SetMax({KeptVal[k] : k \in K}))
        /\ result.mean.kind = "num"
        /\ SameQuotient(result.mean.num, result.mean.den, P, W)
        /\ result.std.kind = "sqrt"
        /\ SameQuotient(result.std.num, result.std.den, D, W * W * W)
        /\ result.rms.kind = "sqrt"
        /\ SameQuotient(result.rms.num, result.rms.den, Q, W)
        /\ ( /\ Unmasked(args.s) = Cells(args.s)
             /\ \A k \in Cells(args.s) : args.area.val[k] = args.area.val[1] )
             => SameQuotient(result.mean.num, result.mean.den,
                             SumOver(args.s.val, Cells(args.s)), n)

\* C10 witness: a masked cell with a value and an area of its own beside an
\* unmasked cell of another value, and the mean is that of the unmasked cell
C10_Witness ==
  /\ IsWeightedStats /\ TotalWeight # 0
  /\ \E k \in Cells(args.s) :
       /\ args.s.mask[k] /\ args.area.val[k] > 0 /\ args.s.val[k] > 0
       /\ \E u \in Unmasked(args.s) : args.s.val[u] < 0
  /\ result.mean.kind = "num" /\ result.mean.num < 0

(***************************************************************************)
(* Claims about corr.                                                      *)
(***************************************************************************)
IsCorr == op = "corr"

\* The sum of area over the cells that s1 leaves unmasked: sumArea
CorrTotalWeight ==
  SumOver([k \in Cells(args.s1) |->
             IF args.s1.mask[k] THEN 0 ELSE args.area[k]], Cells(args.s1))

\* The sum of area*s**2 over the cells of the set U
AreaSquares(s, U) ==
  SumOver([k \in Cells(s) |-> args.area[k] * s.val[k] * s.val[k]], U)

\* The sum of area*s1*s2 over the cells unmasked in both fields
AreaCross ==
  SumOver([k \in Cells(args.s1) |->
             args.area[k] * args.s1.val[k] * args.s2.val[k]],
          Unmasked(args.s1) \cap Unmasked(args.s2))

\* C12: whenever corr returns a number r, for any masks on the two fields
\* and a non-negative area of positive total weight, -1 <= r <= 1: the
\* square of the sum of w*s1*s2 is at most the product of the sums of
\* w*s1**2 and of w*s2**2.
C12_CorrWithinUnit ==
  (IsCorr /\ result.rxy.kind = "corr") =>
    /\ CorrTotalWeight > 0
    /\ result.rxy.den > 0
    /\ result.rxy.num * result.rxy.num <= result.rxy.den

\* A number is returned for two fields of different masks
C12_Witness ==
  /\ IsCorr
  /\ result.rxy.kind = "corr"
  /\ result.rxy.num # 0
  /\ \E k \in Cells(args.s1) : args.s2.mask[k] /\ ~args.s1.mask[k]
  /\ \E k \in Cells(args.s1) : args.area[k] = 2

\* The field -s: the same mask, every value negated
Negated(s) == [val |-> [k \in Cells(s) |-> 0 - s.val[k]], mask |-> s.mask]

\* The weighted mean of s1 is zero: the field is de-meaned
DeMeaned ==
  SumOver([k \in Cells(args.s1) |-> args.area[k] * args.s1.val[k]],
          Unmasked(args.s1)) = 0

\* C13: for a field s of non-zero weighted variance and a non-negative area
\* of positive total weight, corr(s, s, area) is 1 and corr(s, -s, area) is
\* -1 (for every such s, the de-meaned ones among them).
C13_SelfCorrelation ==
  (/\ IsCorr
   /\ CorrTotalWeight > 0
   /\ AreaSquares(args.s1, Unmasked(args.s1)) # 0) =>
    /\ args.s2 = args.s1 =>
         /\ result.rxy.kind = "corr"
         /\ result.rxy.num > 0
         /\ result.rxy.num * result.rxy.num = result.rxy.den
    /\ args.s2 = Negated(args.s1) =>
         /\ result.rxy.kind = "corr"
         /\ result.rxy.num < 0
         /\ result.rxy.num * result.rxy.num = result.rxy.den

\* A de-meaned field with a masked cell and unequal weights against its
\* negation: -1 is returned
C13_Witness ==
  /\ IsCorr
  /\ DeMeaned
  /\ args.s2 = Negated(args.s1)
  /\ \E k \in Cells(args.s1) : args.s1.val[k] # 0
  /\ \E k \in Cells(args.s1) : args.area[k] = 2
  /\ result.rxy.kind = "corr"
  /\ result.rxy.num < 0
  /\ result.rxy.num * result.rxy.num = result.rxy.den

\* v1 or v2 is the number zero
ZeroVariance ==
  \/ AreaSquares(args.s1, Unmasked(args.s1)) = 0
  \/ /\ Unmasked(args.s2) # {}
     /\ AreaSquares(args.s2, Unmasked(args.s1) \cap Unmasked(args.s2)) = 0

\* C14: with positive total weight, corr returns NaN as a value and raises
\* nothing when v1 or v2 is zero, and in every other case the value of
\* (sum(w*s1*s2)/sumArea)/sqrt(v1*v2), which is masked when s2 has no
\* unmasked cell.
C14_NaNOnZeroVariance ==
  (IsCorr /\ CorrTotalWeight > 0) =>
    /\ result.raised = "none"
    /\ ZeroVariance => result.rxy = NaN
    /\ ~ZeroVariance =>
         IF Unmasked(args.s2) = {}
           THEN result.rxy = Masked
           ELSE /\ result.rxy.kind = "corr"
                /\ result.rxy.num = AreaCross
                /\ result.rxy.den =
                     AreaSquares(args.s1, Unmasked(args.s1))
                       * AreaSquares(args.s2, Unmasked(args.s1)
                                                \cap Unmasked(args.s2))

\* NaN comes back for a constant-zero s2 against a field of positive
\* variance
C14_Witness ==
  /\ IsCorr
  /\ CorrTotalWeight > 0
  /\ AreaSquares(args.s1, Unmasked(args.s1)) > 0
  /\ Unmasked(args.s2) # {}
  /\ \A k \in Unmasked(args.s2) : args.s2.val[k] = 0
  /\ result.raised = "none"
  /\ result.rxy = NaN

\* The numbers C/sqrt(D) held by a and b are equal
SameCorr(a, b) ==
  /\ a.num * b.num >= 0
  /\ (a.num = 0) = (b.num = 0)
  /\ a.num * a.num * b.den = b.num * b.num * a.den

UnmaskedVals(s) == {s.val[k] : k \in Unmasked(s)}

\* myStats(s, None) returned the extremes of the unmasked cells of s and
\* None three times
UnweightedStats(s, st) ==
  /\ st.raised = "none"
  /\ st.sMin = (IF UnmaskedVals(s) = {} THEN Masked
                ELSE Num(SetMin(UnmaskedVals(s))))
  /\ st.sMax = (IF UnmaskedVals(s) = {} THEN Masked
                ELSE Num(SetMax(UnmaskedVals(s))))
  /\ st.mean = NoneNum
  /\ st.std = NoneNum
  /\ st.rms = NoneNum

\* C11: with area absent myStats returns the minimum and the maximum over
\* the unmasked cells and None, not 0 or NaN, for mean, std and rms; and
\* xycompare, branching on that marker, computes no correlation: corr is
\* not called and dRxy is None.
C11_NoAreaNoStatistics ==
  /\ (op = "myStats" /\ ~args.area.some) =>
       UnweightedStats(args.s, result)
  /\ (op = "xycompare" /\ ~args.area.some /\ result.raised = "none") =>
       /\ UnweightedStats(maskedField(args.field1, args.ignore), result.s1)
       /\ UnweightedStats(maskedField(args.field2, args.ignore), result.s2)
       /\ result.d.mean = NoneNum
       /\ result.d.std = NoneNum
       /\ result.d.rms = NoneNum
       /\ ~result.corrCalled
       /\ result.dRxy = NoneNum

\* xycompare without area on two fields that differ, one with an ignored
\* cell
C11_Witness ==
  /\ op = "xycompare"
  /\ ~args.area.some
  /\ result.raised = "none"
  /\ args.field1 # args.field2
  /\ args.ignore.some
  /\ \E k \in DOMAIN args.field1 : args.field1[k] = args.ignore.val
  /\ result.s1.sMin.kind = "num"
  /\ result.s1.mean = NoneNum
  /\ ~result.corrCalled
  /\ result.dRxy = NoneNum

(***************************************************************************)
(* Claims about the arrays of the caller.                                  *)
(***************************************************************************)
\* C15: no core operation modifies an array of its caller: after myStats or
\* corr the area array is as it was, masked cells or not (the weights are
\* zeroed on a copy), and after expand, expandI, expandJ and createXYcoords
\* the coordinate arrays handed in are as they were.
C15_InputsUnchanged ==
  /\ op \in {"myStats", "corr", "xycompare"} => heap.area = args.area
  /\ op \in {"expand", "expandI", "expandJ"} => heap.a = args.a
  /\ op = "createXYcoords" => heap.x = args.x /\ heap.y = args.y

\* myStats on a field with a masked cell of positive area: the weight of
\* the cell was zeroed, the area of the caller was not
C15_Witness ==
  /\ op = "myStats"
  /\ args.area.some
  /\ \E k \in Cells(args.s) : args.s.mask[k] /\ args.area.val[k] > 0
  /\ \E k \in Cells(args.s) :
       args.s.mask[k] /\ statsWeight(args.s, args.area.val)[k] = 0
  /\ result.mean.kind = "num"
  /\ heap.area = args.area

(***************************************************************************)
(* Claims about the zoom.                                                  *)
(***************************************************************************)
\* C19: from limits equal to the saved extent (xMin < xMax, y either way),
\* after any sequence of scroll-up, scroll-down and middle-click events at
\* cursor positions inside the axes, the limits the handler has applied
\* keep xMin <= xL <= xR <= xMax and y within [min(yMin,yMax),
\* max(yMin,yMax)]; and when newLims finds the limits equal to the current
\* ones it returns the marker (None, None) and the handler leaves the limits
\* as they are.
C19_ZoomWithinExtent ==
  op = "interactive" =>
    /\ args.xMin <= result.xlim[1]
    /\ result.xlim[1] <= result.xlim[2]
    /\ result.xlim[2] <= args.xMax
    /\ \A i \in 1..2 :
         /\ Min2(args.yMin, args.yMax) <= result.ylim[i]
         /\ result.ylim[i] <= Max2(args.yMin, args.yMax)
    /\ result.returned.none => ~result.applied /\ ~result.moved
    /\ ~result.returned.none =>
         /\ result.applied
         /\ result.moved
         /\ result.xlim = result.returned.x
         /\ result.ylim = result.returned.y

\* A middle click at the centre of zoomed-in, downward-running axes that
\* touch the saved extent: the marker came back and the limits stayed
C19_Witness ==
  /\ op = "interactive"
  /\ args.yMin > args.yMax
  /\ result.button = "2"
  /\ result.returned.none
  /\ result.xlim[2] - result.xlim[1] < args.xMax - args.xMin
  /\ result.xlim[1] = args.xMin
  /\ result.ylim[1] > result.ylim[2]
  /\ result.ylim[2] = args.yMax

(***************************************************************************)
(* The state machine.                                                      *)
(***************************************************************************)
Init ==
  /\ op = "init"
  /\ args = <<>>
  /\ result = <<>>
  /\ heap = <<>>

NextColor == ChooseColorMapCall \/ ChooseColorLevelsCall

SpecColor == Init /\ [][NextColor]_vars

NextCoord ==
  \/ ExpandCall \/ ExpandICall \/ ExpandJCall \/ BoundaryStatsCall
  \/ CreateXYcoordsCall

SpecCoord == Init /\ [][NextCoord]_vars

NextStats == MyStatsCall \/ CorrCall \/ XYCompareStatsCall

SpecStats == Init /\ [][NextStats]_vars

NextPlot == PlotLevelsCall \/ FieldLevelsCall \/ DiffLevelsCall

SpecPlot == Init /\ [][NextPlot]_vars

NextZoom == AddInteractiveCallbacks \/ Zoom

SpecZoom == Init /\ [][NextZoom]_vars

\* The calls that take arrays
NextFrame == NextCoord \/ NextStats

SpecFrame == Init /\ [][NextFrame]_vars

Next == NextColor \/ NextCoord \/ NextStats \/ NextPlot \/ NextZoom

Spec == Init /\ [][Next]_vars

=============================================================================
